---- MODULE Spec2Model ----
(***************************************************************************)
(* Model of src/main.ino: the ESP32 mini ping-pong game.                   *)
(*                                                                         *)
(* One step of the model is one call of loop().  Time is the value of      *)
(* millis(), in milliseconds.  The float quantities of the sketch          *)
(* (positions and velocities, in pixels and pixels per frame) are IEEE     *)
(* single-precision numbers; a float is held as the integer                *)
(* sign * (its bit pattern without the sign bit), so that the order of the *)
(* integers is the order of the floats and 0 is 0.0f.  Every operation on  *)
(* floats rounds to the nearest float, ties to even, as the hardware does. *)
(* The blocking audio cues advance the clock by the sum of their delay()   *)
(* calls.                                                                  *)
(***************************************************************************)
EXTENDS Integers, Sequences, FiniteSets

----------------------------------------------------------------------------
(* Bounds of the model. *)

\* loop() is not entered any more once millis() has passed MaxClock
MaxClock == 19000
\* the same for the runs that hold the start button
MaxClockStart == 12000
\* the same for the runs of slow frames
MaxClockSlow == 250000
\* the same for the runs with paddle moves
MaxClockPlay == 2500
\* buttons are pressed only up to this value of millis()
PressUntil == 700
\* the same for the rallies
MaxClockRally == 127000
\* at most this many paddle hits in a rally
MaxRallyHits == 3
\* at most this many lost points in a rally
MaxRallyMisses == 1
\* in a rally the buttons are pressed only while the ball comes down below
\* this line of the screen
PressBelow == 35
\* at most this many PLAYING frames two seconds or more after the last clock
\* reading
MaxStalls == 1
\* at most this many paddle hits over the life of the process
MaxHits == 1
\* at most this many loop() calls that return at the frame gate
MaxSkips == 1
\* at most this many frames of one stay in START that see the start button
\* released, and of one GAMEOVER episode that see a button released
MaxIdle == 1

----------------------------------------------------------------------------
(* Program constants. *)

SCREEN_WIDTH == 128
SCREEN_HEIGHT == 64
paddleWidth == 24
paddleHeight == 4
paddleY == SCREEN_HEIGHT - paddleHeight - 1
ballR == 2
SLOW_SEC == 20
FAST_SEC == 5
FPS == 60
FRAME_INTERVAL == 1000 \div FPS
BLINK_INTERVAL == 500
\* uint16_t arithmetic
U16 == 65536

\* durations of the blocking cues: the delay() calls of beep()
sfxPaddleHitMs == 25 + 0
sfxWallBounceMs == (4 + 2) + (3 + 0)
sfxLosePointMs == 2 * (120 + 80)
sfxStartFirstMs == 120 + 0
\* sfxParty(ms): beeps of 90 + 30 ms while millis() < end
sfxPartyMs(ms) == ((ms + (90 + 30) - 1) \div (90 + 30)) * (90 + 30)

----------------------------------------------------------------------------
(* Single-precision arithmetic. *)

\* A float is kept as the integer s * p, where s is its sign and p the bit
\* pattern of its absolute value: exponent * 2^23 + fraction.  The floats of
\* the game are normal numbers or zero: a result below the normal range is 0,
\* infinities and NaN do not occur.

\* 2^n, 0 <= n <= 30
Pow2 == [i \in 0..30 |-> IF i = 0 THEN 1 ELSE 2^i]
TwoTo(n) == Pow2[n]
\* fabs
Abs(a) == IF a < 0 THEN -a ELSE a
\* the sign of a float, of an int
Sgn(a) == IF a < 0 THEN -1 ELSE 1
\* the biased exponent of a float
FExp(f) == Abs(f) \div 8388608
\* the 24-bit significand of a float that is not 0
FMant(f) == (Abs(f) % 8388608) + 8388608

\* s * m * 2^(e - 153) rounded to the nearest float, ties to even; m < 2^30
RECURSIVE FRound(_, _, _)
FRound(s, e, m) ==
  IF m = 0 \/ e <= 0 THEN 0
  ELSE IF m >= 134217728
       THEN FRound(s, e + 1, m \div 2 + (IF m % 2 = 1 /\ (m \div 2) % 2 = 0 THEN 1 ELSE 0))
  ELSE IF m < 262144 THEN FRound(s, e - 8, m * 256)
  ELSE IF m < 67108864 THEN FRound(s, e - 1, m * 2)
  ELSE LET q  == m \div 8
           r  == m % 8
           up == r > 4 \/ (r = 4 /\ q % 2 = 1)
           q1 == IF up THEN q + 1 ELSE q
       IN  IF q1 = 16777216 THEN s * ((e + 1) * 8388608)
           ELSE s * (e * 8388608 + q1 - 8388608)

\* m shifted right by d bits, the bits lost kept as a sticky last bit
ShiftSticky(m, d) ==
  IF d >= 28 THEN (IF m = 0 THEN 0 ELSE 1)
  ELSE LET q == m \div TwoTo(d)
       IN  IF m % TwoTo(d) # 0 /\ q % 2 = 0 THEN q + 1 ELSE q

\* (float) n for an int n, |n| < 2^24
Flt(n) == FRound(Sgn(n), 153, Abs(n))

\* a + b
FAdd(a, b) ==
  IF a = 0 THEN b ELSE IF b = 0 THEN a
  ELSE LET big   == IF Abs(a) >= Abs(b) THEN a ELSE b
           small == IF Abs(a) >= Abs(b) THEN b ELSE a
           mb    == FMant(big) * 8
           ms    == ShiftSticky(FMant(small) * 8, FExp(big) - FExp(small))
       IN  IF Sgn(a) = Sgn(b) THEN FRound(Sgn(big), FExp(big), mb + ms)
           ELSE FRound(Sgn(big), FExp(big), mb - ms)

\* a - b
FSub(a, b) == FAdd(a, -b)

\* a * b: the 48-bit product of the significands, in 12-bit halves
FMul(a, b) ==
  IF a = 0 \/ b = 0 THEN 0
  ELSE LET ah  == FMant(a) \div 4096
           al  == FMant(a) % 4096
           bh  == FMant(b) \div 4096
           bl  == FMant(b) % 4096
           mid == ah * bl + al * bh
           lo0 == (mid % 4096) * 4096 + al * bl
           lo  == lo0 % 16777216
           hi  == ah * bh + mid \div 4096 + lo0 \div 16777216
           e   == FExp(a) + FExp(b) - 127
           s   == Sgn(a) * Sgn(b)
       IN  IF hi >= 8388608
           THEN FRound(s, e + 1, hi * 8 + lo \div 2097152
                                  + (IF lo % 2097152 # 0 /\ (lo \div 2097152) % 2 = 0 THEN 1 ELSE 0))
           ELSE FRound(s, e, hi * 16 + lo \div 1048576
                              + (IF lo % 1048576 # 0 /\ (lo \div 1048576) % 2 = 0 THEN 1 ELSE 0))

\* the bits of the quotient r / d after the first, k bits to go, the
\* remainder kept as a sticky last bit
RECURSIVE QuotBits(_, _, _, _)
QuotBits(r, d, k, q) ==
  IF k = 0 THEN (IF r # 0 /\ q % 2 = 0 THEN q + 1 ELSE q)
  ELSE IF 2 * r >= d THEN QuotBits(2 * r - d, d, k - 1, 2 * q + 1)
       ELSE QuotBits(2 * r, d, k - 1, 2 * q)

\* a / b, b not 0
FDiv(a, b) ==
  IF a = 0 THEN 0
  ELSE LET ma == FMant(a)
           mb == FMant(b)
           s  == Sgn(a) * Sgn(b)
           e  == FExp(a) - FExp(b) + 127
       IN  IF ma >= mb THEN FRound(s, e, QuotBits(ma - mb, mb, 26, 1))
           ELSE FRound(s, e - 1, QuotBits(2 * ma - mb, mb, 26, 1))

\* Numbers of 72 bits and more as <<x2, x1, x0>>: x2 * 2^48 + x1 * 2^24 + x0,
\* with x1, x0 < 2^24.
\* m * 2^n as such a number, m < 2^24, 0 <= n <= 48
Wide(m, n) ==
  LET k  == n % 24
      hi == m \div TwoTo(24 - k)
      lo == (m % TwoTo(24 - k)) * TwoTo(k)
  IN  IF n < 24 THEN <<0, hi, lo>>
      ELSE IF n < 48 THEN <<hi, lo, 0>>
      ELSE <<m, 0, 0>>

\* (h * 2^24 + l) * 2^n as such a number, h, l < 2^24, 0 <= n <= 24
WideShl(h, l, n) ==
  LET hw == Wide(h, n)
      lw == Wide(l, n)
  IN  IF n = 24 THEN <<h, l, 0>> ELSE <<hw[2], hw[3] + lw[2], lw[3]>>

\* (h * 2^24 + l) / 2^n with a sticky last bit, n >= 0
WideShr(h, l, n) ==
  IF n >= 48 THEN <<0, 0, 1>>
  ELSE IF n >= 24
       THEN LET q == ShiftSticky(h, n - 24)
            IN  <<0, 0, IF l # 0 /\ q % 2 = 0 THEN q + 1 ELSE q>>
  ELSE LET lq == l \div TwoTo(n)
           st == l % TwoTo(n) # 0
           l1 == (h % TwoTo(n)) * TwoTo(24 - n) + lq
       IN  <<0, h \div TwoTo(n), IF st /\ l1 % 2 = 0 THEN l1 + 1 ELSE l1>>

\* u < v
WideLess(u, v) ==
  \/ u[1] < v[1]
  \/ u[1] = v[1] /\ u[2] < v[2]
  \/ u[1] = v[1] /\ u[2] = v[2] /\ u[3] < v[3]

\* u + v
WideAdd(u, v) ==
  LET s0 == u[3] + v[3]
      s1 == u[2] + v[2] + s0 \div 16777216
  IN  <<u[1] + v[1] + s1 \div 16777216, s1 % 16777216, s0 % 16777216>>

\* u - v, u >= v
WideSub(u, v) ==
  LET b0 == IF u[3] < v[3] THEN 1 ELSE 0
      d0 == u[3] - v[3] + b0 * 16777216
      b1 == IF u[2] - b0 < v[2] THEN 1 ELSE 0
      d1 == u[2] - b0 - v[2] + b1 * 16777216
  IN  <<u[1] - b1 - v[1], d1, d0>>

\* s * x * 2^(e - 198) rounded to the nearest float, ties to even
RECURSIVE WideRound(_, _, _)
WideRound(s, e, x) ==
  IF x[1] = 0 /\ x[2] = 0 /\ x[3] = 0 THEN 0
  ELSE IF x[1] = 0 THEN WideRound(s, e - 24, <<x[2], x[3], 0>>)
  ELSE IF x[1] < 8388608
       THEN WideRound(s, e - 1, <<2 * x[1] + x[2] \div 8388608,
                                  (x[2] % 8388608) * 2 + x[3] \div 8388608,
                                  (x[3] % 8388608) * 2>>)
  ELSE LET m  == x[1] * 8 + x[2] \div 2097152
           st == x[2] % 2097152 # 0 \/ x[3] # 0
       IN  FRound(s, e, IF st /\ m % 2 = 0 THEN m + 1 ELSE m)

\* a * b + c rounded once: the fused multiply-add instruction
FMulAdd(a, b, c) ==
  IF a = 0 \/ b = 0 THEN c
  ELSE IF c = 0 THEN FMul(a, b)
  ELSE LET ah  == FMant(a) \div 4096
           al  == FMant(a) % 4096
           bh  == FMant(b) \div 4096
           bl  == FMant(b) % 4096
           mid == ah * bl + al * bh
           lo0 == (mid % 4096) * 4096 + al * bl
           lo  == lo0 % 16777216
           hi  == ah * bh + mid \div 4096 + lo0 \div 16777216
           eP  == FExp(a) + FExp(b) - 300
           eC  == FExp(c) - 150
           mc  == FMant(c)
           sP  == Sgn(a) * Sgn(b)
           sC  == Sgn(c)
           E   == IF eC >= eP THEN (IF eC - eP <= 48 THEN eP ELSE eC - 48)
                  ELSE (IF eP - eC <= 24 THEN eC ELSE eP - 24)
           U   == IF eC >= eP
                  THEN (IF eC - eP <= 48 THEN <<0, hi, lo>> ELSE WideShr(hi, lo, eC - eP - 48))
                  ELSE (IF eP - eC <= 24 THEN WideShl(hi, lo, eP - eC) ELSE <<hi, lo, 0>>)
           V   == IF eC >= eP
                  THEN (IF eC - eP <= 48 THEN Wide(mc, eC - eP) ELSE <<mc, 0, 0>>)
                  ELSE (IF eP - eC <= 24 THEN <<0, 0, mc>>
                        ELSE <<0, 0, ShiftSticky(mc, eP - eC - 24)>>)
       IN  IF sP = sC THEN WideRound(sP, E + 198, WideAdd(U, V))
           ELSE IF WideLess(U, V) THEN WideRound(sC, E + 198, WideSub(V, U))
           ELSE WideRound(sP, E + 198, WideSub(U, V))

----------------------------------------------------------------------------
(* The float constants of the sketch.  A decimal literal is the float       *)
(* nearest to it, which is the rounded quotient of two small integers.      *)

\* the ints that meet a float in a comparison or an assignment, as floats
fBallR == Flt(ballR)
fScreenWidth == Flt(SCREEN_WIDTH)
fRightWall == Flt(SCREEN_WIDTH - ballR)
fPaddleY == Flt(paddleY)
fPaddleTop == Flt(paddleY - ballR)
fPaddleWidth == Flt(paddleWidth)
fPaddleMax == Flt(SCREEN_WIDTH - paddleWidth)
\* 5.2f
paddleSpeed == FDiv(Flt(52), Flt(10))
\* SCREEN_WIDTH / 2.0f and SCREEN_HEIGHT / 3.0f, where resetBall() puts the ball
ballStartX == FDiv(Flt(SCREEN_WIDTH), Flt(2))
ballStartY == FDiv(Flt(SCREEN_HEIGHT), Flt(3))
\* s = 1.7f of resetBall()
ballStartSpeed == FDiv(Flt(17), Flt(10))
\* paddleWidth / 2.0f
paddleHalf == FDiv(Flt(paddleWidth), Flt(2))
\* (SCREEN_WIDTH - paddleWidth) / 2.0f, where resetGame() puts the paddle
paddleStartX == FDiv(Flt(SCREEN_WIDTH - paddleWidth), Flt(2))
\* maxVX = 2.8f, the 0.8f of the offset and acc = 1.04f of the paddle bounce
maxVX == FDiv(Flt(28), Flt(10))
offsetGain == FDiv(Flt(8), Flt(10))
acc == FDiv(Flt(104), Flt(100))

----------------------------------------------------------------------------
VARIABLES
  clock,                   \* millis() now
  gameState,
  score,
  paddleX,
  ballX, ballY, ballVX, ballVY,
  speedMultiplier, fastMode, modeStartSec,
  lastFrameMs,
  runStartMs, lastSecondMs, elapsedSec,
  finalTimeCaptured, finalElapsedSec,
  bestTimeSec,
  nvsBest,                 \* the value stored under "best" in NVS
  blinkOn, lastBlinkMs,
  hasPlayedFirstStartBeep,
  t0,                      \* the static of bothButtonsHeld
  cues,                    \* the cues played by the last loop() call, in order
  nvsWrites,               \* the prefs.putUShort calls of the last loop() call
  maxStepSecs,             \* history: the most seconds one frame of this run added
                           \* to elapsedSec
  heldFrom,                \* history: when the current run of GAMEOVER frames that
                           \* saw both buttons pressed began (-1: no such run)
  lostHold,                \* history: the longest such run, in ms, that a frame of this
                           \* GAMEOVER episode ended by seeing a button released
                           \* (-1: no frame of the episode saw a button released)
  lastButtons,             \* history: the levels <<left, right>> that
                           \* handleButtonsPaddle() read last (TRUE is LOW, pressed)
  hits,                    \* the paddle hits so far
  skips,                   \* the loop() calls so far that returned at the frame gate
  idle,                    \* the frames of this stay in START that saw the start button
                           \* released, or of this GAMEOVER episode that saw a button
                           \* released
  stalls,                  \* the PLAYING frames so far that came two seconds or more
                           \* after the last clock reading
  fpContract,              \* the build contracts a product and a sum of floats into
                           \* one fused multiply-add (a compiler option, fixed for
                           \* the life of the process)
  startReads               \* history: the levels of BTN_RIGHT that the last frame of
                           \* case STATE_START read, in order (TRUE is LOW, pressed)

vars == <<clock, gameState, score, paddleX,
          ballX, ballY, ballVX, ballVY, speedMultiplier, fastMode, modeStartSec,
          lastFrameMs, runStartMs, lastSecondMs, elapsedSec,
          finalTimeCaptured, finalElapsedSec, bestTimeSec, nvsBest,
          blinkOn, lastBlinkMs, hasPlayedFirstStartBeep, t0,
          cues, nvsWrites, maxStepSecs, heldFrom, lostHold, lastButtons,
          hits, skips, idle,
          stalls, fpContract, startReads>>

\* The state after the globals' initialisers and setup(); StoredBest holds the
\* values prefs.getUShort("best", 0) may load, Builds the values of fpContract.
InitWith(StoredBest, Builds) ==
  /\ fpContract \in Builds
  /\ clock = 50
  /\ gameState = "START"
  /\ score = 10
  /\ paddleX = 0
  /\ ballX = 0 /\ ballY = 0 /\ ballVX = 0 /\ ballVY = 0
  /\ speedMultiplier = 1 /\ fastMode = FALSE /\ modeStartSec = 0
  /\ lastFrameMs = 0
  /\ runStartMs = 0 /\ lastSecondMs = 0 /\ elapsedSec = 0
  /\ finalTimeCaptured = FALSE /\ finalElapsedSec = 0
  /\ nvsBest \in StoredBest
  /\ bestTimeSec = nvsBest
  /\ blinkOn = TRUE /\ lastBlinkMs = 50
  /\ hasPlayedFirstStartBeep = FALSE
  /\ t0 = 0
  /\ cues = <<>>
  /\ nvsWrites = 0
  /\ maxStepSecs = 0
  /\ heldFrom = -1
  /\ lostHold = -1
  /\ lastButtons = <<FALSE, FALSE>>
  /\ hits = 0 /\ skips = 0 /\ idle = 0 /\ stalls = 0
  /\ startReads = <<>>

----------------------------------------------------------------------------
(* The functions of the sketch. *)

\* the number of entries of seq that are c
Count(seq, c) == Cardinality({i \in 1..Len(seq) : seq[i] = c})

RECURSIVE ReleaseWait(_)

\* a bothButtonsHeld() that keeps t0 when a button is released
bothButtonsHeld_KeepT0(t, l, r, now, msRequired) ==
  IF l /\ r
  THEN LET t1 == IF t = 0 THEN now ELSE t
       IN  [t0 |-> t1, held |-> (now - t1) >= msRequired]
  ELSE [t0 |-> t, held |-> FALSE]

\* bothButtonsHeld(msRequired), called at millis() = now with the levels l, r
\* read: the new value of the static t0 and the value returned.
bothButtonsHeld(t, l, r, now, msRequired) ==
  IF l /\ r
  THEN LET t1 == IF t = 0 THEN now ELSE t
       IN  [t0 |-> t1, held |-> (now - t1) >= msRequired]
  ELSE [t0 |-> 0, held |-> FALSE]

\* resetBall(): rnd is the value of random(0, 2)
resetBall(rnd) ==
  [x  |-> ballStartX,
   y  |-> ballStartY,
   vx |-> IF rnd = 0 THEN -ballStartSpeed ELSE ballStartSpeed,
   vy |-> ballStartSpeed]

\* a setSpeedMode() that does not restart the time of the phase
setSpeedMode_NoStart(fast, es) ==
  [fastMode |-> fast, speedMultiplier |-> IF fast THEN 2 ELSE 1, modeStartSec |-> 0]

\* setSpeedMode(fast) at elapsedSec = es
setSpeedMode(fast, es) ==
  [fastMode |-> fast, speedMultiplier |-> IF fast THEN 2 ELSE 1, modeStartSec |-> es]

\* an updateSpeedMode() that catches up with the phases a long step skipped
updateSpeedMode_CatchUp(m, es) ==
  LET p    == es % (SLOW_SEC + FAST_SEC)
      fast == p >= SLOW_SEC
  IN  [fastMode |-> fast,
       speedMultiplier |-> IF fast THEN 2 ELSE 1,
       modeStartSec |-> IF fast THEN es - p + SLOW_SEC ELSE es - p]

\* an updateSpeedMode() that changes the phase one second late
updateSpeedMode_Late(m, es) ==
  LET elapsedInMode == (es - m.modeStartSec) % U16
      next == [fastMode |-> ~m.fastMode,
               speedMultiplier |-> IF m.fastMode THEN 1 ELSE 2,
               modeStartSec |-> es]
  IN  IF m.fastMode
      THEN IF elapsedInMode > FAST_SEC THEN next ELSE m
      ELSE IF elapsedInMode > SLOW_SEC THEN next ELSE m

\* updateSpeedMode() on the mode m = [fastMode, speedMultiplier, modeStartSec]
updateSpeedMode(m, es) ==
  LET elapsedInMode == (es - m.modeStartSec) % U16
  IN  IF m.fastMode
      THEN IF elapsedInMode >= FAST_SEC THEN setSpeedMode(FALSE, es) ELSE m
      ELSE IF elapsedInMode >= SLOW_SEC THEN setSpeedMode(TRUE, es) ELSE m

\* a chronometer that counts one second at a time
ClockSteps_One(now, lastSec) ==
  IF now - lastSec >= 1000 THEN 1 ELSE 0

\* the chronometer of loop(): whole seconds since lastSecondMs
ClockSteps(now, lastSec) ==
  IF now - lastSec >= 1000 THEN (now - lastSec) \div 1000 ELSE 0

\* a handleButtonsPaddle() that clamps after each step
handleButtonsPaddle_ClampEach(px, l, r) ==
  LET top == fPaddleMax
      p1 == IF l THEN FSub(px, paddleSpeed) ELSE px
      c1 == IF p1 < 0 THEN 0 ELSE IF p1 > top THEN top ELSE p1
      p2 == IF r THEN FAdd(c1, paddleSpeed) ELSE c1
  IN  IF p2 < 0 THEN 0 ELSE IF p2 > top THEN top ELSE p2

\* handleButtonsPaddle()
handleButtonsPaddle(px, l, r) ==
  LET p1 == IF l THEN FSub(px, paddleSpeed) ELSE px
      p2 == IF r THEN FAdd(p1, paddleSpeed) ELSE p1
      p3 == IF p2 < 0 THEN 0 ELSE p2
  IN  IF p3 > fPaddleMax
      THEN fPaddleMax ELSE p3

\* the final time captureFinalTimeAndUpdateBest() computes at millis() = now
FinalTime(now, start) == ((now - start) \div 1000) % U16

\* a record that any final time other than the best sets
IsNewBest_Other(final, best) == final # best

\* captureFinalTimeAndUpdateBest(): the final time is a new best
IsNewBest(final, best) == final > best

\* a run that ends one point late
ScoreExhausted_Late(sc) == sc < 0

\* a run that ends one point early
ScoreExhausted_Early(sc) == sc <= 1

\* updateBall(): no point is left, the run ends
ScoreExhausted(sc) == sc <= 0

\* updateBall(), first part: the displacement; mult is speedMultiplier, 1 or 2
MoveBall(b, mult) ==
  [b EXCEPT !.x = FAdd(b.x, FMul(b.vx, Flt(mult))),
            !.y = FAdd(b.y, FMul(b.vy, Flt(mult)))]

\* side walls that put the ball on the boundary and keep its velocity
SideWalls_NoTurn(b) ==
  IF FSub(b.x, fBallR) <= 0 THEN [b EXCEPT !.x = fBallR]
  ELSE IF FAdd(b.x, fBallR) >= fScreenWidth
       THEN [b EXCEPT !.x = fRightWall]
       ELSE b

\* updateBall(): the side walls
HitsLeft(b) == FSub(b.x, fBallR) <= 0
HitsRight(b) == ~HitsLeft(b) /\ FAdd(b.x, fBallR) >= fScreenWidth
SideWalls(b) ==
  IF HitsLeft(b) THEN [b EXCEPT !.x = fBallR, !.vx = Abs(b.vx)]
  ELSE IF HitsRight(b)
       THEN [b EXCEPT !.x = fRightWall, !.vx = -Abs(b.vx)]
       ELSE b

\* a ceiling that turns the ball and leaves it where it is
Ceiling_NoClamp(b) ==
  IF FSub(b.y, fBallR) <= 0 THEN [b EXCEPT !.vy = Abs(b.vy)] ELSE b

\* updateBall(): the ceiling
HitsCeiling(b) == FSub(b.y, fBallR) <= 0
Ceiling(b) ==
  IF HitsCeiling(b) THEN [b EXCEPT !.y = fBallR, !.vy = Abs(b.vy)] ELSE b

\* a paddle without a right end
OverPaddle_NoRight(b, px) == b.x >= px

\* updateBall(): the paddle plane is reached, and the ball is over the paddle
AtPaddlePlane(b) == b.vy > 0 /\ FAdd(b.y, fBallR) >= fPaddleY
OverPaddle(b, px) == b.x >= px /\ b.x <= FAdd(px, fPaddleWidth)

\* a bounce on the paddle that does not limit the horizontal velocity
PaddleBounce_NoMax(b, px, fused) ==
  LET cx     == FAdd(px, paddleHalf)
      offset == FDiv(FSub(b.x, cx), paddleHalf)
      v1     == IF fused THEN FMulAdd(offset, offsetGain, b.vx)
                ELSE FAdd(b.vx, FMul(offset, offsetGain))
  IN  [x  |-> b.x,
       y  |-> fPaddleTop,
       vx |-> FMul(v1, acc),
       vy |-> FMul(-Abs(b.vy), acc)]

\* updateBall(): the bounce on the paddle.  fused: the build computes
\* ballVX += offset * 0.8f with one fused multiply-add, rounding once.
PaddleBounce(b, px, fused) ==
  LET cx     == FAdd(px, paddleHalf)
      offset == FDiv(FSub(b.x, cx), paddleHalf)
      v1     == IF fused THEN FMulAdd(offset, offsetGain, b.vx)
                ELSE FAdd(b.vx, FMul(offset, offsetGain))
      v2     == IF v1 > maxVX THEN maxVX ELSE IF v1 < -maxVX THEN -maxVX ELSE v1
  IN  [x  |-> b.x,
       y  |-> fPaddleTop,
       vx |-> FMul(v2, acc),
       vy |-> FMul(-Abs(b.vy), acc)]

\* the cues of the wall and ceiling steps of updateBall() on the moved ball b
WallCues(b) ==
  (IF HitsLeft(b) \/ HitsRight(b) THEN <<"wallBounce">> ELSE <<>>)
  \o (IF HitsCeiling(SideWalls(b)) THEN <<"wallBounce">> ELSE <<>>)

----------------------------------------------------------------------------
(* loop().  d is the time since the clock was last read.  l, r are the     *)
(* button levels the call reads (TRUE is LOW, pressed).                     *)

ball == [x |-> ballX, y |-> ballY, vx |-> ballVX, vy |-> ballVY]
mode == [fastMode |-> fastMode, speedMultiplier |-> speedMultiplier,
         modeStartSec |-> modeStartSec]

\* the frame gate of loop()
FrameDue(now) == now - lastFrameMs >= FRAME_INTERVAL

\* loop() returns at the frame gate, after delay(1)
LoopIdle(d) ==
  LET now == clock + d
  IN  /\ ~FrameDue(now)
      /\ clock' = now + 1
      /\ skips' = skips + 1
      /\ cues' = <<>>
      /\ nvsWrites' = 0
      /\ UNCHANGED <<gameState, score, paddleX,
                     ballX, ballY, ballVX, ballVY,
                     speedMultiplier, fastMode, modeStartSec,
                     lastFrameMs, runStartMs, lastSecondMs, elapsedSec,
                     finalTimeCaptured, finalElapsedSec, bestTimeSec, nvsBest,
                     blinkOn, lastBlinkMs, hasPlayedFirstStartBeep, t0,
                     maxStepSecs, heldFrom, lostHold, lastButtons, hits, idle, stalls,
                     fpContract, startReads>>

\* a resetGame() that leaves the final time of the run before
resetGame_KeepFinal(t, rnd) ==
  LET b == resetBall(rnd)
  IN  /\ score' = 10
      /\ paddleX' = paddleStartX
      /\ ballX' = b.x /\ ballY' = b.y /\ ballVX' = b.vx /\ ballVY' = b.vy
      /\ runStartMs' = t
      /\ lastSecondMs' = t
      /\ elapsedSec' = 0
      /\ fastMode' = FALSE
      /\ speedMultiplier' = 1
      /\ modeStartSec' = 0
      /\ UNCHANGED <<finalTimeCaptured, finalElapsedSec>>
      /\ maxStepSecs' = 0

\* resetGame() at millis() = t
resetGame(t, rnd) ==
  LET b == resetBall(rnd)
      m == setSpeedMode(FALSE, 0)
  IN  /\ score' = 10
      /\ paddleX' = paddleStartX
      /\ ballX' = b.x /\ ballY' = b.y /\ ballVX' = b.vx /\ ballVY' = b.vy
      /\ runStartMs' = t
      /\ lastSecondMs' = t
      /\ elapsedSec' = 0
      /\ fastMode' = m.fastMode
      /\ speedMultiplier' = m.speedMultiplier
      /\ modeStartSec' = m.modeStartSec
      /\ finalTimeCaptured' = FALSE
      /\ finalElapsedSec' = 0
      /\ maxStepSecs' = 0

\* a release wait that reads the button once, an if in place of the while
ReleaseWait_Once(lv) == <<Head(lv)>>

\* The release loop of case STATE_START, while (digitalRead(BTN_RIGHT) == LOW):
\* the levels it reads when lv are the levels of the button at its successive
\* polls (TRUE is LOW, pressed).  It reads until a read finds the button
\* released, and no further.
ReleaseWait(lv) ==
  IF lv = <<>> THEN <<>>
  ELSE IF ~Head(lv) THEN <<FALSE>>
  ELSE <<TRUE>> \o ReleaseWait(Tail(lv))

\* a case STATE_START that plays the first-start cue at every start
StartTick_CueEach(d, r, rnd, lv) ==
  LET now   == clock + d
      first == TRUE
      reads == ReleaseWait(lv)
      tEnd  == now + (IF first THEN sfxStartFirstMs ELSE 0) + 60
                   + 10 * Count(reads, TRUE)
  IN  /\ gameState = "START"
      /\ r => \E i \in 1..Len(lv) : ~lv[i]
      /\ startReads' = IF r THEN <<TRUE>> \o reads ELSE <<FALSE>>
      /\ FrameDue(now)
      /\ lastFrameMs' = now
      /\ IF now - lastBlinkMs >= BLINK_INTERVAL
         THEN blinkOn' = ~blinkOn /\ lastBlinkMs' = now
         ELSE UNCHANGED <<blinkOn, lastBlinkMs>>
      /\ nvsWrites' = 0
      /\ IF r
         THEN /\ cues' = IF first THEN <<"startFirst">> ELSE <<>>
              /\ hasPlayedFirstStartBeep' = TRUE
              /\ resetGame(tEnd, rnd)
              /\ gameState' = "PLAYING"
              /\ clock' = tEnd
              /\ idle' = 0
         ELSE /\ idle' = idle + 1
              /\ cues' = <<>>
              /\ clock' = now
              /\ UNCHANGED <<hasPlayedFirstStartBeep, gameState, score, paddleX,
                             ballX, ballY, ballVX, ballVY,
                             speedMultiplier, fastMode, modeStartSec,
                             runStartMs, lastSecondMs, elapsedSec,
                             finalTimeCaptured, finalElapsedSec, maxStepSecs>>
      /\ UNCHANGED <<bestTimeSec, nvsBest, t0, heldFrom, lostHold, lastButtons,
                     hits, skips, stalls, fpContract>>

\* case STATE_START.  r is the level of BTN_RIGHT that the if of the case
\* reads, lv the levels it has at the successive polls of the release loop
\* after the 60 ms delay; every poll that reads it pressed is followed by a
\* delay of 10 ms.  A button that is never released keeps loop() in the release
\* loop: the frame does not end.
StartTick(d, r, rnd, lv) ==
  LET now   == clock + d
      first == ~hasPlayedFirstStartBeep
      reads == ReleaseWait(lv)
      tEnd  == now + (IF first THEN sfxStartFirstMs ELSE 0) + 60
                   + 10 * Count(reads, TRUE)
  IN  /\ gameState = "START"
      /\ r => \E i \in 1..Len(lv) : ~lv[i]
      /\ startReads' = IF r THEN <<TRUE>> \o reads ELSE <<FALSE>>
      /\ FrameDue(now)
      /\ lastFrameMs' = now
      /\ IF now - lastBlinkMs >= BLINK_INTERVAL
         THEN blinkOn' = ~blinkOn /\ lastBlinkMs' = now
         ELSE UNCHANGED <<blinkOn, lastBlinkMs>>
      /\ nvsWrites' = 0
      /\ IF r
         THEN /\ cues' = IF first THEN <<"startFirst">> ELSE <<>>
              /\ hasPlayedFirstStartBeep' = TRUE
              /\ resetGame(tEnd, rnd)
              /\ gameState' = "PLAYING"
              /\ clock' = tEnd
              /\ idle' = 0
         ELSE /\ idle' = idle + 1
              /\ cues' = <<>>
              /\ clock' = now
              /\ UNCHANGED <<hasPlayedFirstStartBeep, gameState, score, paddleX,
                             ballX, ballY, ballVX, ballVY,
                             speedMultiplier, fastMode, modeStartSec,
                             runStartMs, lastSecondMs, elapsedSec,
                             finalTimeCaptured, finalElapsedSec, maxStepSecs>>
      /\ UNCHANGED <<bestTimeSec, nvsBest, t0, heldFrom, lostHold, lastButtons,
                     hits, skips, stalls, fpContract>>

\* case STATE_PLAYING: the chronometer, updateSpeedMode(), handleButtonsPaddle()
\* and updateBall() with captureFinalTimeAndUpdateBest().  rnd is the value of
\* random(0, 2) should resetBall() be called.  px is the paddle after
\* handleButtonsPaddle(), b1 the ball after the displacement, b3 after the
\* walls and the ceiling.
PlayingTick(d, l, r, rnd) ==
  LET now    == clock + d
      steps  == ClockSteps(now, lastSecondMs)
      es     == (elapsedSec + steps) % U16
      m      == updateSpeedMode(mode, es)
  IN
  \E px \in {handleButtonsPaddle(paddleX, l, r)},
     b1 \in {MoveBall(ball, m.speedMultiplier)} :
  \E b3 \in {Ceiling(SideWalls(b1))} :
    LET wc     == WallCues(b1)
        tWall  == now + Len(wc) * sfxWallBounceMs
        plane  == AtPaddlePlane(b3)
        hit    == plane /\ OverPaddle(b3, px)
        miss   == plane /\ ~OverPaddle(b3, px)
        sc     == IF miss THEN score - 1 ELSE score
        over   == miss /\ ScoreExhausted(sc)
        tLose  == tWall + sfxLosePointMs
        capt   == over /\ ~finalTimeCaptured
        final  == FinalTime(tLose, runStartMs)
        record == capt /\ IsNewBest(final, bestTimeSec)
        b4     == IF hit THEN PaddleBounce(b3, px, fpContract)
                  ELSE IF miss /\ ~over THEN resetBall(rnd) ELSE b3
    IN  /\ gameState = "PLAYING"
        /\ FrameDue(now)
        /\ lastFrameMs' = now
        /\ elapsedSec' = es
        /\ lastSecondMs' = lastSecondMs + steps * 1000
        /\ maxStepSecs' = IF steps > maxStepSecs THEN steps ELSE maxStepSecs
        /\ stalls' = IF d >= 2 * 1000 THEN stalls + 1 ELSE stalls
        /\ fastMode' = m.fastMode
        /\ speedMultiplier' = m.speedMultiplier
        /\ modeStartSec' = m.modeStartSec
        /\ paddleX' = px
        /\ lastButtons' = <<l, r>>
        /\ ballX' = b4.x /\ ballY' = b4.y /\ ballVX' = b4.vx /\ ballVY' = b4.vy
        /\ score' = sc
        /\ hits' = IF hit THEN hits + 1 ELSE hits
        /\ cues' = wc \o (IF hit THEN <<"paddleHit">> ELSE <<>>)
                      \o (IF miss THEN <<"losePoint">> ELSE <<>>)
                      \o (IF record THEN <<"party">> ELSE <<>>)
        /\ finalElapsedSec' = IF capt THEN final ELSE finalElapsedSec
        /\ finalTimeCaptured' = (finalTimeCaptured \/ capt)
        /\ bestTimeSec' = IF record THEN final ELSE bestTimeSec
        /\ nvsBest' = IF record THEN final ELSE nvsBest
        /\ nvsWrites' = IF record THEN 1 ELSE 0
        /\ gameState' = IF over THEN "GAMEOVER" ELSE "PLAYING"
        /\ heldFrom' = IF over THEN -1 ELSE heldFrom
        /\ lostHold' = IF over THEN -1 ELSE lostHold
        /\ clock' = tWall + (IF hit THEN sfxPaddleHitMs ELSE 0)
                          + (IF miss THEN sfxLosePointMs ELSE 0)
                          + (IF record THEN sfxPartyMs(2000) ELSE 0)
        /\ idle' = IF over THEN 0 ELSE idle
        /\ UNCHANGED <<runStartMs, blinkOn, lastBlinkMs, hasPlayedFirstStartBeep,
                       t0, skips, fpContract, startReads>>

\* a GAMEOVER frame whose restart resumes play without the start screen
GameOverTick_Resume(d, l, r) ==
  LET now == clock + d
      h   == bothButtonsHeld(t0, l, r, now, 800)
  IN  /\ gameState = "GAMEOVER"
      /\ FrameDue(now)
      /\ lastFrameMs' = now
      /\ t0' = h.t0
      /\ heldFrom' = IF l /\ r THEN (IF heldFrom = -1 THEN now ELSE heldFrom) ELSE -1
      /\ lostHold' = IF l /\ r THEN lostHold
                     ELSE LET len == IF heldFrom = -1 THEN 0 ELSE lastFrameMs - heldFrom
                          IN  IF len > lostHold THEN len ELSE lostHold
      /\ idle' = IF l /\ r THEN idle ELSE idle + 1
      /\ cues' = <<>>
      /\ nvsWrites' = 0
      /\ IF h.held
         THEN /\ gameState' = "PLAYING"
              /\ blinkOn' = TRUE
              /\ lastBlinkMs' = now + 300
              /\ clock' = now + 300
         ELSE /\ clock' = now
              /\ UNCHANGED <<gameState, blinkOn, lastBlinkMs>>
      /\ UNCHANGED <<score, paddleX, ballX, ballY, ballVX, ballVY,
                     speedMultiplier, fastMode, modeStartSec,
                     runStartMs, lastSecondMs, elapsedSec,
                     finalTimeCaptured, finalElapsedSec, bestTimeSec, nvsBest,
                     hasPlayedFirstStartBeep, maxStepSecs, lastButtons,
                     hits, skips, stalls, fpContract, startReads>>

\* case STATE_GAMEOVER: bothButtonsHeld(800), and the restart; idle also counts
\* the frames that saw a button released
GameOverTick(d, l, r) ==
  LET now == clock + d
      h   == bothButtonsHeld(t0, l, r, now, 800)
  IN  /\ gameState = "GAMEOVER"
      /\ FrameDue(now)
      /\ lastFrameMs' = now
      /\ t0' = h.t0
      /\ heldFrom' = IF l /\ r THEN (IF heldFrom = -1 THEN now ELSE heldFrom) ELSE -1
      /\ lostHold' = IF l /\ r THEN lostHold
                     ELSE LET len == IF heldFrom = -1 THEN 0 ELSE lastFrameMs - heldFrom
                          IN  IF len > lostHold THEN len ELSE lostHold
      /\ idle' = IF l /\ r THEN idle ELSE idle + 1
      /\ cues' = <<>>
      /\ nvsWrites' = 0
      /\ IF h.held
         THEN /\ gameState' = "START"
              /\ blinkOn' = TRUE
              /\ lastBlinkMs' = now + 300
              /\ clock' = now + 300
         ELSE /\ clock' = now
              /\ UNCHANGED <<gameState, blinkOn, lastBlinkMs>>
      /\ UNCHANGED <<score, paddleX, ballX, ballY, ballVX, ballVY,
                     speedMultiplier, fastMode, modeStartSec,
                     runStartMs, lastSecondMs, elapsedSec,
                     finalTimeCaptured, finalElapsedSec, bestTimeSec, nvsBest,
                     hasPlayedFirstStartBeep, maxStepSecs, lastButtons,
                     hits, skips, stalls, fpContract, startReads>>

----------------------------------------------------------------------------
(* Specifications. *)

Buttons == BOOLEAN \X BOOLEAN

\* the bounds on a step
BoundedBy(maxClock) ==
  /\ clock' <= maxClock
  /\ hits' <= MaxHits
  /\ skips' <= MaxSkips
  /\ idle' <= MaxIdle
  /\ stalls' <= MaxStalls

Bounded == BoundedBy(MaxClock)

\* Two runs without a paddle move: frames FRAME_INTERVAL apart while playing,
\* 200 ms apart in GAMEOVER, where every button combination is read.  Without
\* a paddle hit the two kinds of build run alike; the build that does not
\* contract is taken.
Init == InitWith({0, 50}, {FALSE})

Next ==
  \/ \E d \in {FRAME_INTERVAL - 1} : LoopIdle(d) /\ Bounded
  \/ \E r \in BOOLEAN, rnd \in {0, 1} :
       StartTick(FRAME_INTERVAL, r, rnd, <<FALSE>>) /\ Bounded
  \/ \E rnd \in {0, 1} :
       PlayingTick(FRAME_INTERVAL, FALSE, FALSE, rnd) /\ Bounded
  \/ \E b \in Buttons : GameOverTick(200, b[1], b[2]) /\ Bounded

Spec == Init /\ [][Next]_vars

\* The start button at the polls of the release loop: released at the first
\* poll, or held through two polls, released at the third and pressed again.
Releases == {<<FALSE>>, <<TRUE, TRUE, FALSE, TRUE>>}

\* Starts with the button held: a run and the start of the next, as under
\* Spec, where the start button is released at once or held through polls of
\* the release loop.
BoundedStart == BoundedBy(MaxClockStart)

NextStart ==
  \/ \E d \in {FRAME_INTERVAL - 1} : LoopIdle(d) /\ BoundedStart
  \/ \E r \in BOOLEAN, rnd \in {0, 1}, lv \in Releases :
       StartTick(FRAME_INTERVAL, r, rnd, lv) /\ BoundedStart
  \/ \E rnd \in {0, 1} :
       PlayingTick(FRAME_INTERVAL, FALSE, FALSE, rnd) /\ BoundedStart
  \/ \E b \in Buttons : GameOverTick(200, b[1], b[2]) /\ BoundedStart

SpecStart == InitWith({0}, {FALSE}) /\ [][NextStart]_vars

\* Slow frames: while playing, a frame comes one second after the last clock
\* reading, or after a stall of 2 or 27 seconds, no button is touched and
\* random(0, 2) returns 0; in START the start button is read released or
\* pressed, in GAMEOVER both buttons are read released or both pressed, so that
\* a finished run is followed by frames of START and by the next run.  No
\* paddle hit here either.
Stalls == {2000, 27000}

NextClock ==
  \/ \E d \in {FRAME_INTERVAL - 1} : LoopIdle(d) /\ BoundedBy(MaxClockSlow)
  \/ \E r \in BOOLEAN :
       StartTick(FRAME_INTERVAL, r, 0, <<FALSE>>) /\ BoundedBy(MaxClockSlow)
  \/ \E d \in {1000} \cup Stalls :
       PlayingTick(d, FALSE, FALSE, 0) /\ BoundedBy(MaxClockSlow)
  \/ \E b \in {<<FALSE, FALSE>>, <<TRUE, TRUE>>} :
       GameOverTick(200, b[1], b[2]) /\ BoundedBy(MaxClockSlow)

SpecClock == InitWith({0}, {FALSE}) /\ [][NextClock]_vars

\* Play with the paddle: frames FRAME_INTERVAL apart, every button combination
\* up to PressUntil and no button after it, on both kinds of build.
Pressed == IF clock <= PressUntil THEN Buttons ELSE {<<FALSE, FALSE>>}

NextPlay ==
  \/ \E d \in {FRAME_INTERVAL - 1} : LoopIdle(d) /\ BoundedBy(MaxClockPlay)
  \/ \E rnd \in {0, 1} :
       StartTick(FRAME_INTERVAL, TRUE, rnd, <<FALSE>>)
         /\ BoundedBy(MaxClockPlay)
  \/ \E b \in Pressed, rnd \in {0, 1} :
       PlayingTick(FRAME_INTERVAL, b[1], b[2], rnd) /\ BoundedBy(MaxClockPlay)

SpecPlay == InitWith({0}, BOOLEAN) /\ [][NextPlay]_vars

\* A rally: one run with PLAYING frames one second after the last clock
\* reading, so that the frame gate never closes and both phases are played;
\* the paddle is moved, one button at a time, only while the ball comes down
\* below PressBelow; at most MaxRallyMisses points are lost; both kinds of
\* build.
Moves == {<<FALSE, FALSE>>, <<TRUE, FALSE>>, <<FALSE, TRUE>>}

PressedLow ==
  IF ballVY > 0 /\ ballY >= Flt(PressBelow) THEN Moves ELSE {<<FALSE, FALSE>>}

BoundedRally ==
  clock' <= MaxClockRally /\ hits' <= MaxRallyHits /\ score' >= 10 - MaxRallyMisses

NextRally ==
  \/ \E rnd \in {0, 1} :
       StartTick(FRAME_INTERVAL, TRUE, rnd, <<FALSE>>) /\ BoundedRally
  \/ \E b \in PressedLow, rnd \in {0, 1} :
       PlayingTick(1000, b[1], b[2], rnd) /\ BoundedRally

SpecRally == InitWith({0}, BOOLEAN) /\ [][NextRally]_vars

----------------------------------------------------------------------------
(* Properties. *)

\* a step is a frame of the given state
FrameOf(st) == gameState = st /\ lastFrameMs' # lastFrameMs
Restart == gameState = "GAMEOVER" /\ gameState' = "START"
RunStarts == gameState = "START" /\ gameState' = "PLAYING"
RunEnds == gameState = "PLAYING" /\ gameState' = "GAMEOVER"


\* the ball after the step, and the ball updateBall() has after its wall and
\* ceiling steps
ballNext == [x |-> ballX', y |-> ballY', vx |-> ballVX', vy |-> ballVY']
ballAtPlane == Ceiling(SideWalls(MoveBall(ball, speedMultiplier')))

\* C1: the game restarts only in a frame that ends 800 ms or more of GAMEOVER
\* frames of the same episode that all saw both buttons pressed; never in the
\* first GAMEOVER frame of a run.
C1_RestartOnlyAfterHold ==
  [][Restart => (heldFrom' # -1 /\ lastFrameMs' - heldFrom' >= 800)]_vars

\* C2: a GAMEOVER frame that sees a button released never restarts and clears
\* t0; a restart that follows such a frame of the episode ends a new run of
\* 800 ms or more of frames that saw both buttons pressed.
C2_ReleaseResetsHold ==
  [][FrameOf("GAMEOVER") =>
       /\ heldFrom' = -1 => (t0' = 0 /\ gameState' = "GAMEOVER")
       /\ (Restart /\ lostHold' >= 0) =>
            (heldFrom' # -1 /\ lastFrameMs' - heldFrom' >= 800)]_vars

\* C2 witness: restarted after a hold of 600 ms was lost to a release
C2_Witness ==
  gameState = "START" /\ lostHold >= 600 /\ heldFrom # -1 /\ clock - 300 - heldFrom >= 800

\* C3: 0 <= score <= 10; the score never rises during a run and falls by one
\* at a time; PLAYING goes to GAMEOVER exactly in the frame the score becomes 0,
\* and a GAMEOVER is left only for START.
C3_ScoreAndGameOver ==
  /\ [](score \in 0..10)
  /\ [](gameState = "PLAYING" => score > 0)
  /\ [][/\ gameState = "PLAYING" => score' \in {score, score - 1}
        /\ RunEnds <=> (gameState = "PLAYING" /\ score > 0 /\ score' = 0)
        /\ score' > score => (RunStarts /\ score' = 10)
        /\ gameState = "GAMEOVER" => gameState' \in {"GAMEOVER", "START"}]_vars

\* C3 witness: the tenth point was lost
C3_Witness == gameState = "GAMEOVER" /\ score = 0 /\ Count(cues, "losePoint") = 1

\* C4: bestTimeSec never falls; it changes only in the frame that ends a run
\* with a final time above it, and becomes that time; that frame writes the
\* best to NVS once and plays the party cue once, and no other frame does.
C4_BestOnlyGrows ==
  [][LET newBest == RunEnds /\ finalElapsedSec' > bestTimeSec
     IN  /\ bestTimeSec' >= bestTimeSec
         /\ bestTimeSec' # bestTimeSec => newBest
         /\ newBest => (bestTimeSec' = finalElapsedSec' /\ nvsBest' = finalElapsedSec')
         /\ ~newBest => nvsBest' = nvsBest
         /\ nvsWrites' = (IF newBest THEN 1 ELSE 0)
         /\ Count(cues', "party") = (IF newBest THEN 1 ELSE 0)]_vars

\* C4 witness: a run ended with the final time equal to the best that an
\* earlier run had set and stored: no write, no party
C4_Witness ==
  /\ gameState = "GAMEOVER" /\ Count(cues, "losePoint") = 1
  /\ finalElapsedSec = bestTimeSec /\ bestTimeSec > 0 /\ nvsBest = bestTimeSec
  /\ nvsWrites = 0 /\ Count(cues, "party") = 0

\* C6: finalElapsedSec and finalTimeCaptured are written by the frame that ends
\* a run, once, and then only by the reset of the next run, to 0 and FALSE.
C6_FinalWrittenOnce ==
  /\ [](gameState = "PLAYING" => (~finalTimeCaptured /\ finalElapsedSec = 0))
  /\ [](gameState = "GAMEOVER" => finalTimeCaptured)
  /\ [][/\ RunEnds => (~finalTimeCaptured /\ finalTimeCaptured')
        /\ RunStarts => (~finalTimeCaptured' /\ finalElapsedSec' = 0)
        /\ (finalElapsedSec' # finalElapsedSec \/ finalTimeCaptured' # finalTimeCaptured)
             => (RunEnds \/ RunStarts)]_vars

\* C6 witness: back in START, the final time of the run is still there
C6_Witness ==
  gameState = "START" /\ finalTimeCaptured /\ finalElapsedSec > 0 /\ idle > 0

\* C5: the final time captured at the end of a run is the elapsedSec of the
\* frame that ended the run.
C5_FinalIsElapsed == finalTimeCaptured => finalElapsedSec = elapsedSec

\* C7: the phase is FAST exactly while elapsedSec mod 25 is in 20..24.
PhaseFollowsClock ==
  /\ fastMode <=> (elapsedSec % (SLOW_SEC + FAST_SEC)) >= SLOW_SEC
  /\ speedMultiplier = (IF fastMode THEN 2 ELSE 1)

C7_PhasePattern == gameState = "PLAYING" => PhaseFollowsClock

\* C7 as amended: the same, in a run no frame of which has added more than one
\* second to elapsedSec at once and that has lasted less than 65536 s.
C7_PhasePatternSteady ==
  (gameState = "PLAYING" /\ maxStepSecs <= 1 /\ (clock - runStartMs) \div 1000 < U16)
    => PhaseFollowsClock

\* C7 witness: the second FAST phase of such a run
C7_Witness ==
  /\ gameState = "PLAYING" /\ maxStepSecs = 1
  /\ fastMode /\ elapsedSec = 2 * SLOW_SEC + FAST_SEC + 2

\* C8: the time spent in the phase is never above the phase's length.
C8_PhaseWithinLength ==
  LET inMode == elapsedSec - modeStartSec
  IN  /\ inMode >= 0
      /\ inMode <= (IF fastMode THEN FAST_SEC ELSE SLOW_SEC)

\* C8 witness: a phase that a frame of several seconds started off the pattern
C8_Witness ==
  /\ gameState = "PLAYING" /\ maxStepSecs >= 2
  /\ modeStartSec % (SLOW_SEC + FAST_SEC) \notin {0, SLOW_SEC}
  /\ elapsedSec > modeStartSec

\* C9: the paddle stays in 0 .. SCREEN_WIDTH - paddleWidth, and a PLAYING frame
\* that reads both buttons pressed leaves it where it was.
C9_PaddleInField ==
  /\ [](paddleX >= 0 /\ paddleX <= fPaddleMax)
  /\ [][(FrameOf("PLAYING") /\ lastButtons' = <<TRUE, TRUE>>) => paddleX' = paddleX]_vars

\* C9 witness: both buttons read with the paddle at the left end
C9_Witness ==
  gameState = "PLAYING" /\ lastButtons = <<TRUE, TRUE>> /\ paddleX = 0

\* C10: in a PLAYING frame, a wall-bounce cue is played for each contact; a
\* contact with the left or right wall or the ceiling puts the ball on that
\* boundary and turns the velocity, which pointed out of the field before the
\* frame, into the field; unless the paddle plane is reached in the same frame,
\* that is the ball at the end of the frame.
C10_WallBounce ==
  [][FrameOf("PLAYING") =>
       \A b1 \in {MoveBall(ball, speedMultiplier')} :
       \A b2 \in {SideWalls(b1)} :
       \A b3 \in {Ceiling(b2)} :
       LET n  == (IF HitsLeft(b1) \/ HitsRight(b1) THEN 1 ELSE 0)
                   + (IF HitsCeiling(b2) THEN 1 ELSE 0)
       IN  /\ Count(cues', "wallBounce") = n
           /\ HitsLeft(b1) => (b2.x = fBallR /\ ballVX < 0 /\ b2.vx > 0)
           /\ HitsRight(b1) =>
                (b2.x = fRightWall /\ ballVX > 0 /\ b2.vx < 0)
           /\ HitsCeiling(b2) => (b3.y = fBallR /\ ballVY < 0 /\ b3.vy > 0)
           /\ ~AtPaddlePlane(b3) =>
                (ballX' = b3.x /\ ballY' = b3.y /\ ballVX' = b3.vx /\ ballVY' = b3.vy)]_vars

\* C10 witness: the ball has just bounced off the right wall
C10_Witness ==
  /\ gameState = "PLAYING" /\ Count(cues, "wallBounce") = 1
  /\ ballX = fRightWall /\ ballVX < 0

\* C11: a lose-point cue is played exactly by a PLAYING frame that takes one
\* point, so a run that starts with 10 points and ends with none plays 10; in a
\* run without paddle hits, a miss that leaves points resets the ball and stays
\* in PLAYING, the miss that takes the last point leaves the ball where it fell
\* and enters GAMEOVER in that frame; no frame of GAMEOVER or START plays the cue.
C11_TenLosePointCues ==
  /\ [](gameState = "GAMEOVER" => score = 0)
  /\ [][LET miss == Count(cues', "losePoint") = 1
        IN  /\ Count(cues', "losePoint") =
                 (IF gameState = "PLAYING" /\ score' = score - 1 THEN 1 ELSE 0)
            /\ RunStarts => score' = 10
            /\ RunEnds => (miss /\ score = 1 /\ score' = 0)
            /\ (FrameOf("PLAYING") /\ hits' = 0) =>
                 /\ (miss /\ score' > 0) =>
                      (gameState' = "PLAYING" /\ \E rnd \in {0, 1} : ballNext = resetBall(rnd))
                 /\ (miss /\ score' = 0) =>
                      (gameState' = "GAMEOVER" /\ ballNext = ballAtPlane)
                 /\ ~miss => gameState' = "PLAYING"]_vars

\* C11 witness: the tenth miss of a run without paddle hits; the ball lies
\* below the paddle plane
C11_Witness ==
  /\ gameState = "GAMEOVER" /\ hits = 0 /\ score = 0
  /\ cues[1] = "losePoint" /\ FAdd(ballY, fBallR) >= fPaddleY /\ ballVY > 0

\* C12: the process begins in START, and a loop() call leaves gameState as it
\* is or takes one step along START -> PLAYING -> GAMEOVER -> START.
C12_StateCycle ==
  /\ gameState = "START"
  /\ [](gameState \in {"START", "PLAYING", "GAMEOVER"})
  /\ [][\/ gameState' = gameState
        \/ gameState = "START" /\ gameState' = "PLAYING"
        \/ gameState = "PLAYING" /\ gameState' = "GAMEOVER"
        \/ gameState = "GAMEOVER" /\ gameState' = "START"]_vars

\* C12 witness: the cycle was closed, the second run is being played
C12_Witness ==
  gameState = "PLAYING" /\ heldFrom # -1 /\ score < 10

\* C13: PLAYING is entered only by a START frame whose first read of the start
\* button found it pressed and whose last read found it released, with every
\* read between them pressed: the frame ends 60 ms or more after it began (the
\* delay) plus 10 ms for every poll that still found the button pressed; a
\* frame whose first read found it released stays in START.  The state that
\* enters PLAYING has score 10, the paddle centred, the ball at its seed
\* position moving downward, the clock at 0 with the second boundary at the
\* start of the run, the phase NORMAL with multiplier 1 begun at 0, and no
\* final time.
C13_StartResetsRun ==
  [][/\ (FrameOf("START") /\ idle' = idle + 1) => gameState' = "START"
     /\ (FrameOf("START") /\ startReads'[1] = FALSE) => gameState' = "START"
     /\ RunStarts =>
          /\ FrameOf("START") /\ idle' = 0
          /\ clock' >= lastFrameMs' + 60
          /\ LET n == Len(startReads')
             IN  /\ n >= 2
                 /\ \A i \in 1..(n - 1) : startReads'[i] = TRUE
                 /\ startReads'[n] = FALSE
                 /\ clock' >= lastFrameMs' + 60 + 10 * (n - 2)
          /\ score' = 10
          /\ FMul(paddleX', Flt(2)) = fPaddleMax
          /\ FMul(ballX', Flt(2)) = fScreenWidth
          /\ FMul(ballY', Flt(3)) = Flt(SCREEN_HEIGHT)
          /\ ballVY' > 0 /\ Abs(ballVX') = ballVY'
          /\ elapsedSec' = 0
          /\ runStartMs' = clock' /\ lastSecondMs' = clock'
          /\ ~fastMode' /\ speedMultiplier' = 1 /\ modeStartSec' = 0
          /\ ~finalTimeCaptured' /\ finalElapsedSec' = 0]_vars

\* C13 witness: the second run has just been entered, after a run that left
\* its own score, ball, clock and final time, by a frame that found the start
\* button still pressed at two polls of the release loop and released at the
\* third
C13_Witness ==
  /\ gameState = "PLAYING" /\ clock = runStartMs /\ heldFrom # -1
  /\ score = 10 /\ elapsedSec = 0 /\ bestTimeSec > 0
  /\ startReads = <<TRUE, TRUE, TRUE, FALSE>>
  /\ clock = lastFrameMs + 60 + 20

\* C14: the first-start cue is played by the first frame that starts a run and
\* by no other loop() call: hasPlayedFirstStartBeep is FALSE at boot, is set by
\* that frame and is never cleared.
C14_FirstStartCueOnce ==
  /\ ~hasPlayedFirstStartBeep
  /\ [][/\ Count(cues', "startFirst") =
             (IF RunStarts /\ ~hasPlayedFirstStartBeep THEN 1 ELSE 0)
        /\ RunStarts => hasPlayedFirstStartBeep'
        /\ hasPlayedFirstStartBeep => hasPlayedFirstStartBeep'
        /\ hasPlayedFirstStartBeep' # hasPlayedFirstStartBeep => RunStarts]_vars

\* C14 witness: the second run was started without the cue
C14_Witness ==
  /\ gameState = "PLAYING" /\ clock = runStartMs /\ lostHold # -1
  /\ hasPlayedFirstStartBeep /\ cues = <<>>

\* C15: the clock of a run is left alone outside PLAYING.
ClockFrozen == UNCHANGED <<elapsedSec, lastSecondMs, runStartMs>>

\* C15 as stated: lastSecondMs = runStartMs + 1000 * elapsedSec, a PLAYING frame
\* ends less than 1000 ms after lastSecondMs, and every START and GAMEOVER
\* frame leaves elapsedSec, lastSecondMs and runStartMs unchanged.
C15_ClockBoundary ==
  /\ [](lastSecondMs - runStartMs < 1000 * U16 =>
          lastSecondMs = runStartMs + 1000 * elapsedSec)
  /\ [][FrameOf("PLAYING") =>
          (lastFrameMs' - lastSecondMs' >= 0 /\ lastFrameMs' - lastSecondMs' < 1000)]_vars
  /\ [][(FrameOf("START") \/ FrameOf("GAMEOVER")) => ClockFrozen]_vars

\* C15 as amended: the same, where the START frames that leave the three
\* unchanged are those that do not start a run; the frame that starts a run
\* sets elapsedSec to 0 and the other two to the time of the start.
C15_ClockBoundaryFrozen ==
  /\ [](lastSecondMs - runStartMs < 1000 * U16 =>
          lastSecondMs = runStartMs + 1000 * elapsedSec)
  /\ [][FrameOf("PLAYING") =>
          (lastFrameMs' - lastSecondMs' >= 0 /\ lastFrameMs' - lastSecondMs' < 1000)]_vars
  /\ [][((FrameOf("START") /\ ~RunStarts) \/ FrameOf("GAMEOVER")) => ClockFrozen]_vars
  /\ [][RunStarts =>
          (elapsedSec' = 0 /\ lastSecondMs' = clock' /\ runStartMs' = clock')]_vars

\* C15 witness: a frame added several seconds at once and ended between two
\* second boundaries
C15_Witness ==
  /\ gameState = "PLAYING" /\ maxStepSecs >= 2 /\ elapsedSec > maxStepSecs
  /\ lastFrameMs - lastSecondMs > 0

\* C16: a PLAYING frame, which calls updateSpeedMode() once, toggles the phase
\* once when the time in the phase has reached the length of the phase, however
\* far beyond, and sets modeStartSec to the elapsedSec of the frame; otherwise
\* it leaves the phase as it is.
C16_OneTransitionPerCall ==
  [][FrameOf("PLAYING") =>
       LET inMode == (elapsedSec' - modeStartSec) % U16
       IN  IF inMode >= (IF fastMode THEN FAST_SEC ELSE SLOW_SEC)
           THEN /\ fastMode' = ~fastMode
                /\ speedMultiplier' = (IF fastMode' THEN 2 ELSE 1)
                /\ modeStartSec' = elapsedSec'
           ELSE UNCHANGED <<fastMode, speedMultiplier, modeStartSec>>]_vars

\* C16 witness: a frame that added more than a whole period to elapsedSec
\* turned NORMAL into FAST, where the pattern has NORMAL
C16_Witness ==
  /\ gameState = "PLAYING" /\ maxStepSecs > SLOW_SEC + FAST_SEC
  /\ fastMode /\ speedMultiplier = 2 /\ modeStartSec = elapsedSec
  /\ elapsedSec % (SLOW_SEC + FAST_SEC) < SLOW_SEC

\* C17: in a PLAYING frame, with the ball as the wall and ceiling steps leave it
\* and the paddle as the frame moved it: if the ball moves downward and
\* ballY + ballR >= paddleY, then either paddleX <= ballX <= paddleX + paddleWidth
\* and the frame is a paddle hit (ballY = paddleY - ballR, ballVY < 0, the
\* paddle-hit cue, the score kept) or it is a lost point (score minus one, the
\* lose-point cue); otherwise, and whenever the ball moved upward before the
\* frame, neither cue is played and the score is kept.
C17_PaddlePlane ==
  [][FrameOf("PLAYING") =>
       \A b \in {ballAtPlane} :
       LET plane == b.vy > 0 /\ FAdd(b.y, fBallR) >= fPaddleY
           over  == paddleX' <= b.x /\ b.x <= FAdd(paddleX', fPaddleWidth)
           nHit  == Count(cues', "paddleHit")
           nLose == Count(cues', "losePoint")
       IN  /\ (plane /\ over) =>
                /\ nHit = 1 /\ nLose = 0 /\ score' = score
                /\ ballY' = fPaddleTop /\ ballVY' < 0
           /\ (plane /\ ~over) => (nHit = 0 /\ nLose = 1 /\ score' = score - 1)
           /\ ~plane => (nHit = 0 /\ nLose = 0 /\ score' = score)
           /\ ballVY < 0 => ~plane]_vars

\* C17 witness: the ball has just bounced off the paddle
C17_Witness ==
  /\ gameState = "PLAYING" /\ Count(cues, "paddleHit") = 1
  /\ ballY = fPaddleTop /\ ballVY < 0 /\ score = 10

\* C18: while the game is in PLAYING the ball lies in the field,
\* ballR <= ballX <= SCREEN_WIDTH - ballR and ballR <= ballY <= paddleY - ballR,
\* and ballVY is not 0.
C18_BallInField ==
  gameState = "PLAYING" =>
    /\ ballX >= fBallR /\ ballX <= fRightWall
    /\ ballY >= fBallR /\ ballY <= fPaddleTop
    /\ ballVY # 0

\* C18 witness: in the FAST phase, after two paddle hits or more, the ball has
\* been put back on the ceiling
C18_Witness ==
  /\ gameState = "PLAYING" /\ fastMode /\ hits >= 2
  /\ Count(cues, "wallBounce") >= 1 /\ ballY = fBallR /\ ballVY > ballStartSpeed

\* C19: |ballVX| <= 2.8 * 1.04, which is not above 2.912, in every state; a
\* paddle hit multiplies |ballVY| by 1.04, every other PLAYING frame that does
\* not reset the ball keeps it, and |ballVY| falls only by a reset of the ball,
\* to 1.7.
C19_VelocityBounds ==
  /\ [](/\ Abs(ballVX) <= FMul(maxVX, acc)
        /\ FMul(maxVX, acc) <= FDiv(Flt(2912), Flt(1000)))
  /\ [][/\ (FrameOf("PLAYING") /\ Count(cues', "paddleHit") = 1) =>
             (ballVY' < 0 /\ Abs(ballVY') = FMul(Abs(ballVY), acc)
                /\ Abs(ballVY') > Abs(ballVY))
        /\ (/\ FrameOf("PLAYING") /\ Count(cues', "paddleHit") = 0
            /\ Count(cues', "losePoint") = 0) => Abs(ballVY') = Abs(ballVY)
        /\ Abs(ballVY') < Abs(ballVY) =>
             /\ RunStarts \/ (FrameOf("PLAYING") /\ score' = score - 1 /\ score' > 0)
             /\ ballVY' = ballStartSpeed]_vars

\* C19 witness: right after the third paddle hit ballVX is above 2.8 and ballVY
\* is 1.7 * 1.04 * 1.04 * 1.04
C19_Witness ==
  /\ gameState = "PLAYING" /\ Count(cues, "paddleHit") = 1 /\ hits = 3
  /\ Abs(ballVX) > maxVX
  /\ ballVY = -FMul(FMul(FMul(ballStartSpeed, acc), acc), acc)

====
